---- MODULE Spec2Model ----
(***************************************************************************)
(* Model of the Grafferrous graph container (src/src/lib.rs): the node and *)
(* edge store, the structural classifiers and the path counter.            *)
(***************************************************************************)
EXTENDS Integers, Sequences, FiniteSets, TLC

\* ---------------------------------------------------------------- bounds
MaxId == 2
MaxData == 1
MaxEdges == 3
MaxStoreId == 1
MaxStoreEdges == 2
MaxWidth == 3
MaxHeight == 3
MaxCycle == 4
MaxRandom == 2
MaxPermuted == 3
MaxUndirectedEdges == 4

\* the ids of the graphs handed to the lookups
IDs == 0..MaxId
\* the ids the insertion calls draw from
StoreIDs == 0..MaxStoreId
Data == 0..MaxData
\* NodeDataType::default()
DefaultData == 0

VARIABLES node_data, edges, reverse_edges, nodes, last

vars == <<node_data, edges, reverse_edges, nodes, last>>

\* ------------------------------------------------------- helper operators
Range(s) == {s[i] : i \in 1..Len(s)}

Contains(s, x) == \E i \in 1..Len(s) : s[i] = x

Occurrences(s, x) == Cardinality({i \in 1..Len(s) : s[i] = x})

\* HashMap::insert(k, v)
MapInsert(m, k, v) == [x \in (DOMAIN m) \cup {k} |-> IF x = k THEN v ELSE m[x]]

\* HashMap::entry(k).or_default().push(v)
MapPush(m, k, v) ==
    [x \in (DOMAIN m) \cup {k} |->
        IF x = k THEN Append(IF k \in DOMAIN m THEN m[k] ELSE <<>>, v) ELSE m[x]]

EmptyMap == [x \in {} |-> 0]

\* The struct Graph as a record of its four fields.
Graph == [node_data |-> node_data, edges |-> edges,
          reverse_edges |-> reverse_edges, nodes |-> nodes]

\* Graph::new
new == [node_data |-> EmptyMap, edges |-> EmptyMap,
        reverse_edges |-> EmptyMap, nodes |-> <<>>]

\* ------------------------------------------------------------ the store
\* as add_node_with_data, the duplicate check left out
add_node_with_data_unchecked(g, id, data) ==
    [node_data |-> MapInsert(g.node_data, id, data),
     edges |-> MapInsert(g.edges, id, <<>>),
     reverse_edges |-> MapInsert(g.reverse_edges, id, <<>>),
     nodes |-> Append(g.nodes, id)]

\* as add_node_with_data, a duplicate overwriting the payload
add_node_with_data_overwrite(g, id, data) ==
    IF id \in DOMAIN g.node_data
    THEN [g EXCEPT !.node_data = MapInsert(g.node_data, id, data)]
    ELSE [node_data |-> MapInsert(g.node_data, id, data),
          edges |-> MapInsert(g.edges, id, <<>>),
          reverse_edges |-> MapInsert(g.reverse_edges, id, <<>>),
          nodes |-> Append(g.nodes, id)]

add_node_with_data(g, id, data) ==
    IF id \in DOMAIN g.node_data
    THEN g
    ELSE [node_data |-> MapInsert(g.node_data, id, data),
          edges |-> MapInsert(g.edges, id, <<>>),
          reverse_edges |-> MapInsert(g.reverse_edges, id, <<>>),
          nodes |-> Append(g.nodes, id)]

add_node(g, id) == add_node_with_data(g, id, DefaultData)

\* as add_directed_edge, the reverse entry filed under the wrong key
add_directed_edge_misfiled(g, from, to) ==
    LET g1 == IF from \notin DOMAIN g.node_data THEN add_node(g, from) ELSE g
        g2 == IF to \notin DOMAIN g1.node_data THEN add_node(g1, to) ELSE g1
    IN  [g2 EXCEPT !.edges = MapPush(g2.edges, from, to),
                   !.reverse_edges = MapPush(g2.reverse_edges, from, to)]

\* as add_directed_edge, the target created before the source
add_directed_edge_target_first(g, from, to) ==
    LET g1 == IF to \notin DOMAIN g.node_data THEN add_node(g, to) ELSE g
        g2 == IF from \notin DOMAIN g1.node_data THEN add_node(g1, from) ELSE g1
    IN  [g2 EXCEPT !.edges = MapPush(g2.edges, from, to),
                   !.reverse_edges = MapPush(g2.reverse_edges, to, from)]

\* as add_directed_edge, a predecessor already listed not pushed again
add_directed_edge_reverse_once(g, from, to) ==
    LET g1 == IF from \notin DOMAIN g.node_data THEN add_node(g, from) ELSE g
        g2 == IF to \notin DOMAIN g1.node_data THEN add_node(g1, to) ELSE g1
    IN  [g2 EXCEPT !.edges = MapPush(g2.edges, from, to),
                   !.reverse_edges =
                       IF to \in DOMAIN g2.reverse_edges
                          /\ Contains(g2.reverse_edges[to], from)
                       THEN g2.reverse_edges
                       ELSE MapPush(g2.reverse_edges, to, from)]

\* as add_directed_edge, the target never created
add_directed_edge_no_target(g, from, to) ==
    LET g1 == IF from \notin DOMAIN g.node_data THEN add_node(g, from) ELSE g
    IN  [g1 EXCEPT !.edges = MapPush(g1.edges, from, to),
                   !.reverse_edges = MapPush(g1.reverse_edges, to, from)]

add_directed_edge(g, from, to) ==
    LET g1 == IF from \notin DOMAIN g.node_data THEN add_node(g, from) ELSE g
        g2 == IF to \notin DOMAIN g1.node_data THEN add_node(g1, to) ELSE g1
    IN  [g2 EXCEPT !.edges = MapPush(g2.edges, from, to),
                   !.reverse_edges = MapPush(g2.reverse_edges, to, from)]

\* as add_edge, the second insertion left out
add_edge_one_way(g, from, to) == add_directed_edge(g, from, to)

add_edge(g, from, to) == add_directed_edge(add_directed_edge(g, from, to), to, from)

\* total number of entries held by the forward adjacency lists
EdgeCount(g) ==
    LET RECURSIVE Sum(_)
        Sum(S) == IF S = {} THEN 0
                  ELSE LET k == CHOOSE k \in S : TRUE
                       IN  Len(g.edges[k]) + Sum(S \ {k})
    IN  Sum(DOMAIN g.edges)

\* Graph::from_edges: add_directed_edge folded over the pairs, in order
RECURSIVE fold_directed_edges(_, _)
fold_directed_edges(g, pairs) ==
    IF pairs = <<>> THEN g
    ELSE fold_directed_edges(add_directed_edge(g, Head(pairs)[1], Head(pairs)[2]), Tail(pairs))

from_edges(pairs) == fold_directed_edges(new, pairs)

\* graph!((id, data), ...), (from => to, ...)): the nodes first, then the edges
RECURSIVE fold_nodes(_, _)
fold_nodes(g, ids) ==
    IF ids = <<>> THEN g
    ELSE fold_nodes(add_node_with_data(g, Head(ids), DefaultData), Tail(ids))

graph_macro(ids, pairs) == fold_directed_edges(fold_nodes(new, ids), pairs)

\* --------------------------------------------------------- the lookups
\* The outcome of a call: status "ok" with a value in num, seq or bool, or the
\* name of the failure (a panic) or of the diagnostic it printed.
Outcome(status, num, seq, bool) ==
    [status |-> status, num |-> num, seq |-> seq, bool |-> bool]

OkSeq(s) == Outcome("ok", 0, s, FALSE)
OkNum(n) == Outcome("ok", n, <<>>, FALSE)
OkBool(b) == Outcome("ok", 0, <<>>, b)
Failure(name) == Outcome(name, 0, <<>>, FALSE)

neighbors(g, id) ==
    IF id \notin DOMAIN g.edges THEN <<>> ELSE g.edges[id]

neighborhood(g, id) == Append(neighbors(g, id), id)

\* the tuples of one key of the forward map, in list order
tuples_of(g, from) == [i \in 1..Len(g.edges[from]) |-> <<from, g.edges[from][i]>>]

RECURSIVE edge_tuples_swapped(_, _)
\* as edge_tuples, every tuple pushed as (to, from)
edge_tuples_swapped(g, keys) ==
    IF keys = <<>> THEN <<>>
    ELSE [i \in 1..Len(g.edges[Head(keys)]) |-> <<g.edges[Head(keys)][i], Head(keys)>>]
         \o edge_tuples_swapped(g, Tail(keys))

\* keys: the order in which self.edges.iter() yields the keys
RECURSIVE edge_tuples(_, _)
edge_tuples(g, keys) ==
    IF keys = <<>> THEN <<>>
    ELSE tuples_of(g, Head(keys)) \o edge_tuples(g, Tail(keys))

\* Index of a HashMap by a key it does not hold panics.
reverse_neighbors(g, id) ==
    IF id \in DOMAIN g.reverse_edges
    THEN OkSeq(g.reverse_edges[id])
    ELSE Failure("MissingKey")

\* ------------------------------------------------------ the classifiers
\* as is_undirected, the membership test left out
is_undirected_keys_only(g) ==
    \A from \in DOMAIN g.edges :
        \A i \in 1..Len(g.edges[from]) : g.edges[from][i] \in DOMAIN g.edges

is_undirected(g) ==
    \A from \in DOMAIN g.edges :
        \A i \in 1..Len(g.edges[from]) :
            LET to == g.edges[from][i]
            IN  /\ to \in DOMAIN g.edges
                /\ Contains(g.edges[to], from)

\* next_layer: the neighbours of every node of the layer, concatenated
RECURSIVE expand_layer(_, _)
expand_layer(g, layer) ==
    IF layer = <<>> THEN <<>>
    ELSE neighbors(g, Head(layer)) \o expand_layer(g, Tail(layer))

RECURSIVE cycle_loop_short(_, _, _, _)
\* as cycle_loop, one hop short
cycle_loop_short(g, origin, depth, current_layer) ==
    IF depth < Len(g.nodes) - 1
    THEN IF Contains(current_layer, origin)
         THEN TRUE
         ELSE cycle_loop_short(g, origin, depth + 1, expand_layer(g, current_layer))
    ELSE FALSE

RECURSIVE cycle_loop(_, _, _, _)
cycle_loop(g, origin, depth, current_layer) ==
    IF depth < Len(g.nodes)
    THEN IF Contains(current_layer, origin)
         THEN TRUE
         ELSE cycle_loop(g, origin, depth + 1, expand_layer(g, current_layer))
    ELSE FALSE

is_part_of_a_cycle(g, origin) == cycle_loop(g, origin, 0, neighbors(g, origin))

\* as is_directed_acyclic, the undirected test left out
is_directed_acyclic_ungated(g) ==
    \A i \in 1..Len(g.nodes) : ~is_part_of_a_cycle(g, g.nodes[i])

is_directed_acyclic(g) ==
    IF is_undirected(g)
    THEN FALSE
    ELSE \A i \in 1..Len(g.nodes) : ~is_part_of_a_cycle(g, g.nodes[i])

\* --------------------------------------------------- the path enumerator
RECURSIVE count_paths(_, _, _)
RECURSIVE count_paths_loop(_, _, _, _)

\* the for loop over reverse_neighbors, paths being the running total
count_paths_loop(g, start, rest, paths) ==
    IF rest = <<>> THEN OkNum(paths)
    ELSE IF Head(rest) = start
         THEN count_paths_loop(g, start, Tail(rest), paths + 1)
         ELSE LET sub == count_paths(g, start, Head(rest))
              IN  IF sub.status # "ok" THEN sub
                  ELSE count_paths_loop(g, start, Tail(rest), paths + sub.num)

\* as count_paths, the acyclicity assertion made first
count_paths_acyclic_first(g, start, end) ==
    IF ~is_directed_acyclic(g) THEN Failure("NotAcyclic")
    ELSE IF ~Contains(g.nodes, start) THEN Failure("UnknownNode")
    ELSE IF ~Contains(g.nodes, end) THEN Failure("UnknownNode")
    ELSE IF start = end THEN OkNum(1)
    ELSE LET rn == reverse_neighbors(g, end)
         IN  IF rn.status # "ok" THEN rn
             ELSE count_paths_loop(g, start, rn.seq, 0)

\* as count_paths, the base case taken before the acyclicity assertion
count_paths_base_first(g, start, end) ==
    IF ~Contains(g.nodes, start) THEN Failure("UnknownNode")
    ELSE IF ~Contains(g.nodes, end) THEN Failure("UnknownNode")
    ELSE IF start = end THEN OkNum(1)
    ELSE IF ~is_directed_acyclic(g) THEN Failure("NotAcyclic")
    ELSE LET rn == reverse_neighbors(g, end)
         IN  IF rn.status # "ok" THEN rn
             ELSE count_paths_loop(g, start, rn.seq, 0)

count_paths(g, start, end) ==
    IF ~Contains(g.nodes, start) THEN Failure("UnknownNode")
    ELSE IF ~Contains(g.nodes, end) THEN Failure("UnknownNode")
    ELSE IF ~is_directed_acyclic(g) THEN Failure("NotAcyclic")
    ELSE IF start = end THEN OkNum(1)
    ELSE LET rn == reverse_neighbors(g, end)
         IN  IF rn.status # "ok" THEN rn
             ELSE count_paths_loop(g, start, rn.seq, 0)

\* ------------------------------------------------------------- the calls
\* last: the latest call and its outcome.  A mutation keeps its name and the
\* diagnostic it printed; a lookup keeps its arguments and its result as well.
Call(op, args, out) ==
    [op |-> op, args |-> args, status |-> out.status,
     num |-> out.num, seq |-> out.seq, bool |-> out.bool]

Done(op) == Call(op, <<>>, OkNum(0))

Store(g) ==
    /\ node_data' = g.node_data
    /\ edges' = g.edges
    /\ reverse_edges' = g.reverse_edges
    /\ nodes' = g.nodes

GraphVars == <<node_data, edges, reverse_edges, nodes>>

Init ==
    /\ node_data = new.node_data
    /\ edges = new.edges
    /\ reverse_edges = new.reverse_edges
    /\ nodes = new.nodes
    /\ last = Done("new")

\* println!("Attempt to add node ..."): the duplicate-node diagnostic
Diagnostic(id) == IF id \in DOMAIN node_data THEN Failure("DuplicateNode") ELSE OkNum(0)

AddNode ==
    \E id \in StoreIDs :
        /\ Store(add_node(Graph, id))
        /\ last' = Call("add_node", <<>>, Diagnostic(id))

AddNodeWithData ==
    \E id \in StoreIDs, data \in Data :
        /\ Store(add_node_with_data(Graph, id, data))
        /\ last' = Call("add_node_with_data", <<>>, Diagnostic(id))

AddDirectedEdge ==
    \E from \in StoreIDs, to \in StoreIDs :
        /\ EdgeCount(Graph) + 1 <= MaxStoreEdges
        /\ Store(add_directed_edge(Graph, from, to))
        /\ last' = Call("add_directed_edge", <<from, to>>, OkNum(0))

AddEdge ==
    \E from \in StoreIDs, to \in StoreIDs :
        /\ EdgeCount(Graph) + 2 <= MaxStoreEdges
        /\ Store(add_edge(Graph, from, to))
        /\ last' = Call("add_edge", <<from, to>>, OkNum(0))

Next ==
    \/ AddNode
    \/ AddNodeWithData
    \/ AddDirectedEdge
    \/ AddEdge

Spec == Init /\ [][Next]_vars

\* ------------------------------- graphs built without add_directed_edge
\* add_edge in a program that calls only add_node, add_node_with_data and
\* add_edge: without single directed edges two undirected edges fit the bound.
AddEdgeOnly ==
    \E from \in StoreIDs, to \in StoreIDs :
        /\ EdgeCount(Graph) + 2 <= MaxUndirectedEdges
        /\ Store(add_edge(Graph, from, to))
        /\ last' = Call("add_edge", <<from, to>>, OkNum(0))

NextUndirected ==
    \/ AddNode
    \/ AddNodeWithData
    \/ AddEdgeOnly

SpecUndirected == Init /\ [][NextUndirected]_vars

\* ------------------------------------------- the lookups on a built graph
\* Sequences of at most n elements of S
SeqsUpTo(S, n) == UNION {[1..k -> S] : k \in 0..n}

Injective(s) == \A i, j \in 1..Len(s) : s[i] = s[j] => i = j

\* The graphs handed to the lookups: the nodes 0 .. k-1 added first, then any
\* edge list, whose endpoints are created as they are met.  A lookup leaves the
\* graph as it is, so one lookup per graph is followed.
NodeLists == {[i \in 1..k |-> i - 1] : k \in 0..(MaxId + 1)}

InitQuery ==
    \E ids \in NodeLists,
       pairs \in SeqsUpTo(IDs \X IDs, MaxEdges) :
        LET g == graph_macro(ids, pairs)
        IN  /\ node_data = g.node_data
            /\ edges = g.edges
            /\ reverse_edges = g.reverse_edges
            /\ nodes = g.nodes
            /\ last = Done("graph")

Neighbors ==
    \E id \in IDs :
        /\ last.op = "graph"
        /\ last' = Call("neighbors", <<id>>, OkSeq(neighbors(Graph, id)))
        /\ UNCHANGED GraphVars

ReverseNeighbors ==
    \E id \in IDs :
        /\ last.op = "graph"
        /\ last' = Call("reverse_neighbors", <<id>>, reverse_neighbors(Graph, id))
        /\ UNCHANGED GraphVars

IsUndirected ==
    /\ last.op = "graph"
    /\ last' = Call("is_undirected", <<>>, OkBool(is_undirected(Graph)))
    /\ UNCHANGED GraphVars

IsDirectedAcyclic ==
    /\ last.op = "graph"
    /\ last' = Call("is_directed_acyclic", <<>>, OkBool(is_directed_acyclic(Graph)))
    /\ UNCHANGED GraphVars

CountPaths ==
    \E start \in IDs, end \in IDs :
        /\ last.op = "graph"
        /\ last' = Call("count_paths", <<start, end>>, count_paths(Graph, start, end))
        /\ UNCHANGED GraphVars

NextQuery ==
    \/ Neighbors
    \/ ReverseNeighbors
    \/ IsUndirected
    \/ IsDirectedAcyclic
    \/ CountPaths

SpecQuery == InitQuery /\ [][NextQuery]_vars

\* -------------------------------------------------------- the generators
\* The ids 0 .. n-1 in ascending order
Ascending(n) == [i \in 1..n |-> i - 1]

\* The elements of a set of numbers, smallest first
RECURSIVE AscendingOf(_)
AscendingOf(S) ==
    IF S = {} THEN <<>>
    ELSE LET m == CHOOSE m \in S : \A x \in S : m <= x
         IN  <<m>> \o AscendingOf(S \ {m})

\* The cells (x, y) of a width by height grid, column by column
GridCells(width, height) ==
    [i \in 1..(width * height) |-> <<(i - 1) \div height, (i - 1) % height>>]

RECURSIVE Orderings(_)
Orderings(S) ==
    IF S = {} THEN {<<>>}
    ELSE UNION {{<<x>> \o p : p \in Orderings(S \ {x})} : x \in S}

Rotation(s, k) == [i \in 1..Len(s) |-> s[((i + k - 1) % Len(s)) + 1]]

Reverse(s) == [i \in 1..Len(s) |-> s[Len(s) + 1 - i]]

\* node_data.keys(): the order in which a hash map yields its keys is not
\* specified.  Every order is followed for at most MaxPermuted keys; above
\* that, the rotations of the given order and of its reverse.
KeyOrders(keys) ==
    IF Len(keys) <= MaxPermuted
    THEN Orderings(Range(keys))
    ELSE {Rotation(keys, k) : k \in 0..(Len(keys) - 1)}
         \cup {Rotation(Reverse(keys), k) : k \in 0..(Len(keys) - 1)}

\* as grid_neighbours, the last row tested against height instead of height - 1
grid_neighbours_off_by_one(id, width, height) ==
    (IF id[1] > 0 THEN <<(<<id[1] - 1, id[2]>>)>> ELSE <<>>)
    \o (IF id[1] < width - 1 THEN <<(<<id[1] + 1, id[2]>>)>> ELSE <<>>)
    \o (IF id[2] > 0 THEN <<(<<id[1], id[2] - 1>>)>> ELSE <<>>)
    \o (IF id[2] < height THEN <<(<<id[1], id[2] + 1>>)>> ELSE <<>>)

\* the closure of generate_grid_graph: the successors pushed for one cell
grid_neighbours(id, width, height) ==
    (IF id[1] > 0 THEN <<(<<id[1] - 1, id[2]>>)>> ELSE <<>>)
    \o (IF id[1] < width - 1 THEN <<(<<id[1] + 1, id[2]>>)>> ELSE <<>>)
    \o (IF id[2] > 0 THEN <<(<<id[1], id[2] - 1>>)>> ELSE <<>>)
    \o (IF id[2] < height - 1 THEN <<(<<id[1], id[2] + 1>>)>> ELSE <<>>)

\* keys: the order in which node_data.keys() yields the cells
generate_grid_graph(width, height, keys) ==
    [node_data |-> [id \in (0..(width - 1)) \X (0..(height - 1)) |-> DefaultData],
     nodes |-> keys,
     edges |-> [id \in Range(keys) |-> grid_neighbours(id, width, height)],
     reverse_edges |-> new.reverse_edges]

\* as cycle_neighbours, the predecessor computed with the wrong sign
cycle_neighbours_wrong_sign(id, n) == <<(id + 1) % n, (id + n + 1) % n>>

\* the closure of generate_cycle_graph: the successors of one node
cycle_neighbours(id, n) == <<(id + 1) % n, (id + n - 1) % n>>

generate_cycle_graph(n, keys) ==
    [node_data |-> [id \in 0..(n - 1) |-> DefaultData],
     nodes |-> keys,
     edges |-> [id \in Range(keys) |-> cycle_neighbours(id, n)],
     reverse_edges |-> new.reverse_edges]

\* drawn[id]: the targets for which rand::random::<f64>() < p came out true
generate_random_graph(n, keys, drawn) ==
    [node_data |-> [id \in 0..(n - 1) |-> DefaultData],
     nodes |-> keys,
     edges |-> [id \in Range(keys) |-> AscendingOf(drawn[id])],
     reverse_edges |-> new.reverse_edges]

\* A generator starts from its own Graph::new() and returns the graph.
GenerateGrid ==
    \E width \in 0..MaxWidth, height \in 0..MaxHeight :
        \E keys \in KeyOrders(GridCells(width, height)) :
            /\ last.op = "new"
            /\ Store(generate_grid_graph(width, height, keys))
            /\ last' = Call("generate_grid_graph", <<width, height>>, OkNum(0))

GenerateCycle ==
    \E n \in 0..MaxCycle :
        \E keys \in KeyOrders(Ascending(n)) :
            /\ last.op = "new"
            /\ Store(generate_cycle_graph(n, keys))
            /\ last' = Call("generate_cycle_graph", <<n>>, OkNum(0))

GenerateRandom ==
    \E n \in 0..MaxRandom :
        \E keys \in KeyOrders(Ascending(n)), drawn \in [0..(n - 1) -> SUBSET (0..(n - 1))] :
            /\ last.op = "new"
            /\ Store(generate_random_graph(n, keys, drawn))
            /\ last' = Call("generate_random_graph", <<n>>, OkNum(0))

NextGenerate ==
    \/ GenerateGrid
    \/ GenerateCycle
    \/ GenerateRandom

SpecGenerate == Init /\ [][NextGenerate]_vars

\* ------------------------------------------- the listings of a built graph
Neighborhood ==
    \E id \in IDs :
        /\ last.op = "graph"
        /\ last' = Call("neighborhood", <<id>>, OkSeq(neighborhood(Graph, id)))
        /\ UNCHANGED GraphVars

\* self.edges.iter() yields the keys in an order that is not specified
EdgeTuples ==
    \E keys \in KeyOrders(AscendingOf(DOMAIN edges)) :
        /\ last.op = "graph"
        /\ last' = Call("edge_tuples", <<>>, OkSeq(edge_tuples(Graph, keys)))
        /\ UNCHANGED GraphVars

NextListing ==
    \/ Neighborhood
    \/ EdgeTuples

SpecListing == InitQuery /\ [][NextListing]_vars

\* ------------------------------------------------------------ properties
HasEdge(u, v) == u \in DOMAIN edges /\ Contains(edges[u], v)

HasReverseEdge(v, u) == v \in DOMAIN reverse_edges /\ Contains(reverse_edges[v], u)

Known(id) == Contains(nodes, id)

\* the nodes reached from the set S by one or more forward edges
Successors(S) == {v \in IDs : \E u \in S : HasEdge(u, v)}

RECURSIVE Closure(_)
Closure(S) == LET T == S \cup Successors(S) IN IF T = S THEN S ELSE Closure(T)

ReachesItself(u) == u \in Closure(Successors({u}))

\* the node sequences from start to end that follow recorded edges
PathsBetween(start, end) ==
    {p \in UNION {[1..k -> IDs] : k \in 1..(MaxId + 1)} :
        /\ p[1] = start
        /\ p[Len(p)] = end
        /\ \A i \in 1..(Len(p) - 1) : HasEdge(p[i], p[i + 1])}

\* C1: the node directory lists every key of node_data exactly once and
\* nothing else, after every insertion call.
C1_DirectoryMatchesData ==
    /\ Range(nodes) = DOMAIN node_data
    /\ Injective(nodes)

C1_Witness ==
    /\ Len(nodes) = MaxStoreId + 1
    /\ last.status = "DuplicateNode"

\* C2: mirror invariant: v is in edges[u] exactly when u is in
\* reverse_edges[v], after every insertion call.
C2_Mirror ==
    \A u \in IDs, v \in IDs : HasEdge(u, v) <=> HasReverseEdge(v, u)

C2_Witness ==
    /\ last.op = "add_directed_edge"
    /\ \E u \in IDs, v \in IDs : u # v /\ HasEdge(u, v) /\ ~HasEdge(v, u)

\* C3: add_directed_edge is idempotent, so no successor is listed twice in
\* edges[u] and no predecessor twice in reverse_edges[v].
C3_EdgeRecordedOnce ==
    /\ \A u \in DOMAIN edges : \A v \in IDs : Occurrences(edges[u], v) <= 1
    /\ \A v \in DOMAIN reverse_edges : \A u \in IDs : Occurrences(reverse_edges[v], u) <= 1

\* C4: add_edge(x, x) on a graph without the loop x -> x leaves x exactly
\* once in edges[x] and exactly once in reverse_edges[x].
C4_SelfLoopOnce ==
    [][(/\ last'.op = "add_edge"
        /\ last'.args[1] = last'.args[2]
        /\ ~HasEdge(last'.args[1], last'.args[1]))
       => LET x == last'.args[1]
          IN  /\ Occurrences(edges'[x], x) = 1
              /\ Occurrences(reverse_edges'[x], x) = 1]_vars

\* C5: inserting a node that is already present changes nothing, the payload
\* included; inserting a new one appends it to nodes, stores the payload as
\* given and creates empty forward and reverse adjacency entries.
C5_DuplicateNodeNoOp ==
    \A id \in IDs, data \in Data :
        LET g == add_node_with_data(Graph, id, data)
            h == add_node(Graph, id)
        IN  IF id \in DOMAIN node_data
            THEN g = Graph /\ h = Graph
            ELSE /\ g.nodes = Append(nodes, id)
                 /\ g.node_data = [x \in DOMAIN node_data \cup {id} |->
                                      IF x = id THEN data ELSE node_data[x]]
                 /\ g.edges = [x \in DOMAIN edges \cup {id} |->
                                  IF x = id THEN <<>> ELSE edges[x]]
                 /\ g.reverse_edges = [x \in DOMAIN reverse_edges \cup {id} |->
                                          IF x = id THEN <<>> ELSE reverse_edges[x]]

C5_Witness ==
    /\ last.op = "add_node_with_data"
    /\ last.status = "DuplicateNode"
    /\ \E id \in DOMAIN node_data : node_data[id] # DefaultData
    /\ \E id \in DOMAIN node_data : node_data[id] = DefaultData

\* C6: on a graph classified as directed acyclic, count_paths of two known
\* nodes returns the number of distinct node sequences from start to end.
C6_CountsDistinctPaths ==
    (/\ last.op = "count_paths"
     /\ Known(last.args[1])
     /\ Known(last.args[2])
     /\ is_directed_acyclic(Graph))
    => /\ last.status = "ok"
       /\ last.num = Cardinality(PathsBetween(last.args[1], last.args[2]))

\* C7: on a graph not classified as directed acyclic, count_paths of two
\* known nodes, equal or not, fails with NotAcyclic, returns no number and
\* leaves the graph as it was.
C7_NotAcyclicFails ==
    [][(/\ last'.op = "count_paths"
        /\ Known(last'.args[1])
        /\ Known(last'.args[2])
        /\ ~is_directed_acyclic(Graph))
       => /\ last'.status = "NotAcyclic"
          /\ last'.num = 0
          /\ UNCHANGED GraphVars]_vars

C7_Witness ==
    /\ last.op = "count_paths"
    /\ last.status = "NotAcyclic"
    /\ last.args[1] = last.args[2]
    /\ \E u \in IDs, v \in IDs : u # v /\ HasEdge(u, v) /\ HasEdge(v, u)

\* C8: on a graph that is not undirected, is_directed_acyclic answers true
\* exactly when no node reaches itself by one or more forward edges.
C8_AcyclicIffNoCycle ==
    (last.op = "is_directed_acyclic" /\ ~is_undirected(Graph))
    => /\ last.status = "ok"
       /\ last.bool = (\A u \in IDs : ~ReachesItself(u))

\* a cycle through every node and no shorter one, found and reported
C8_Witness ==
    /\ last.op = "is_directed_acyclic"
    /\ last.bool = FALSE
    /\ Len(nodes) = 3
    /\ \A u \in IDs, v \in IDs : HasEdge(u, v) => ~HasEdge(v, u)
    /\ \E u \in IDs : ReachesItself(u)

\* C9: is_undirected answers true exactly when every recorded edge (u, v)
\* has its reverse (v, u) recorded as well.
C9_UndirectedIffSymmetric ==
    last.op = "is_undirected"
    => /\ last.status = "ok"
       /\ last.bool = (\A u \in IDs, v \in IDs : HasEdge(u, v) => HasEdge(v, u))

C9_Witness ==
    /\ last.op = "is_undirected"
    /\ last.bool = FALSE
    /\ EdgeCount(Graph) = 1

\* C10: neighbors and reverse_neighbors of an id that is not a known node
\* both return the empty sequence and never fail.
C10_LookupsNeverFail ==
    (last.op \in {"neighbors", "reverse_neighbors"} /\ ~Known(last.args[1]))
    => /\ last.status = "ok"
       /\ last.seq = <<>>

Generators == {"generate_grid_graph", "generate_cycle_graph", "generate_random_graph"}

\* C11: a generated graph satisfies the store invariants: nodes lists the keys
\* of node_data, every node has a forward and a reverse adjacency entry, the
\* two maps mirror each other and no successor is listed twice.
C11_GeneratedKeepsInvariants ==
    last.op \in Generators
    => /\ Range(nodes) = DOMAIN node_data
       /\ DOMAIN edges = Range(nodes)
       /\ DOMAIN reverse_edges = Range(nodes)
       /\ \A u \in Range(nodes), v \in Range(nodes) :
            Contains(edges[u], v) <=> Contains(reverse_edges[v], u)
       /\ \A u \in Range(nodes) : Injective(edges[u])

\* C16: generate_cycle_graph(n), n >= 1, has exactly n nodes and n forward
\* entries, node i holding the two successors (i+1) mod n and (i-1) mod n.
C16_CycleShape ==
    (last.op = "generate_cycle_graph" /\ last.args[1] >= 1)
    => LET n == last.args[1]
       IN  /\ Len(nodes) = n
           /\ Range(nodes) = 0..(n - 1)
           /\ DOMAIN edges = 0..(n - 1)
           /\ \A i \in 0..(n - 1) : edges[i] = <<(i + 1) % n, (i - 1) % n>>

C16_Witness ==
    /\ last.op = "generate_cycle_graph"
    /\ last.args[1] = MaxCycle
    /\ nodes # Ascending(MaxCycle)

\* the in-bounds cells at distance one of the cell c
FourNeighbours(c, width, height) ==
    {d \in (0..(width - 1)) \X (0..(height - 1)) :
        \/ d[2] = c[2] /\ (d[1] = c[1] + 1 \/ d[1] = c[1] - 1)
        \/ d[1] = c[1] /\ (d[2] = c[2] + 1 \/ d[2] = c[2] - 1)}

\* C17: generate_grid_graph(width, height), both >= 1, has width*height nodes,
\* 2*(2*width*height - width - height) successors in total, and links every
\* cell exactly to its in-bounds 4-neighbours.
C17_GridShape ==
    (last.op = "generate_grid_graph" /\ last.args[1] >= 1 /\ last.args[2] >= 1)
    => LET width == last.args[1]
           height == last.args[2]
       IN  /\ Len(nodes) = width * height
           /\ Range(nodes) = (0..(width - 1)) \X (0..(height - 1))
           /\ DOMAIN edges = Range(nodes)
           /\ EdgeCount(Graph) = 2 * (2 * width * height - width - height)
           /\ \A c \in DOMAIN edges :
                /\ Range(edges[c]) = FourNeighbours(c, width, height)
                /\ Injective(edges[c])

\* a grid with an inner cell, which has all four neighbours
C17_Witness ==
    /\ last.op = "generate_grid_graph"
    /\ last.args = <<3, 3>>
    /\ Len(edges[<<1, 1>>]) = 4

\* C12: whenever is_undirected is true, is_directed_acyclic answers false, the
\* empty graph and graphs without edges included; neither predicate fails.
C12_UndirectedNeverAcyclic ==
    /\ last.op \in {"is_undirected", "is_directed_acyclic"} => last.status = "ok"
    /\ (last.op = "is_directed_acyclic" /\ is_undirected(Graph)) => last.bool = FALSE

\* nodes without any edge, classified as not a DAG
C12_Witness ==
    /\ last.op = "is_directed_acyclic"
    /\ last.bool = FALSE
    /\ Len(nodes) >= 2
    /\ EdgeCount(Graph) = 0

\* the endpoints of add_directed_edge(from, to) that the call has to create
Created(from, to) ==
    (IF Known(from) THEN <<>> ELSE <<from>>)
    \o (IF Known(to) \/ to = from THEN <<>> ELSE <<to>>)

\* C13: add_directed_edge(from, to) appends each endpoint that was unknown to
\* nodes, from before to, with the default payload; the nodes already known
\* keep their position and payload.
C13_ImplicitNodes ==
    [][last'.op = "add_directed_edge"
       => LET from == last'.args[1]
              to == last'.args[2]
          IN  /\ nodes' = nodes \o Created(from, to)
              /\ DOMAIN node_data' = DOMAIN node_data \cup {from, to}
              /\ \A id \in DOMAIN node_data' :
                    node_data'[id] = IF id \in DOMAIN node_data
                                     THEN node_data[id] ELSE DefaultData]_vars

\* a known source with its own payload, and a target listed after it
C13_Witness ==
    /\ last.op = "add_directed_edge"
    /\ last.args[1] # last.args[2]
    /\ nodes = last.args
    /\ node_data[last.args[1]] # DefaultData
    /\ node_data[last.args[2]] = DefaultData

\* C14: in a program that calls only add_node, add_node_with_data and
\* add_edge, is_undirected is true after every call.
C14_AddEdgeKeepsUndirected == is_undirected(Graph)

C14_Witness ==
    /\ last.op = "add_edge"
    /\ EdgeCount(Graph) = 4
    /\ \E u \in IDs, v \in IDs : u # v /\ HasEdge(u, v)
    /\ \E u \in IDs : HasEdge(u, u)

\* C15: count_paths with a start or an end that is not in nodes fails with
\* UnknownNode whatever the graph, returns no number and leaves the graph.
C15_UnknownNodeFails ==
    [][(/\ last'.op = "count_paths"
        /\ ~(Known(last'.args[1]) /\ Known(last'.args[2])))
       => /\ last'.status = "UnknownNode"
          /\ last'.num = 0
          /\ UNCHANGED GraphVars]_vars

\* an unknown end on a graph that is not directed acyclic
C15_Witness ==
    /\ last.op = "count_paths"
    /\ last.status = "UnknownNode"
    /\ Known(last.args[1])
    /\ ~Known(last.args[2])
    /\ ~is_directed_acyclic(Graph)

C19_NeighborhoodOfUnknown ==
    last.op = "neighborhood"
    => /\ last.status = "ok"
       /\ last.seq = IF Known(last.args[1])
                     THEN Append(edges[last.args[1]], last.args[1])
                     ELSE <<>>

\* C20: the forward and the reverse map have exactly the known nodes as keys
\* and every id inside an adjacency list is a known node.
C20_AdjacencyOverKnownNodes ==
    /\ DOMAIN edges = Range(nodes)
    /\ DOMAIN reverse_edges = Range(nodes)
    /\ \A u \in DOMAIN edges : Range(edges[u]) \subseteq Range(nodes)
    /\ \A v \in DOMAIN reverse_edges : Range(reverse_edges[v]) \subseteq Range(nodes)

\* an edge whose two endpoints the call created
C20_Witness ==
    /\ last.op = "add_directed_edge"
    /\ nodes = last.args
    /\ EdgeCount(Graph) = 1
    /\ node_data[last.args[2]] = DefaultData

\* how often v is listed under the key u of the map m, 0 without the key
Listed(m, u, v) == IF u \in DOMAIN m THEN Occurrences(m[u], v) ELSE 0

\* C21: v is listed in edges[u] exactly as often as u is listed in
\* reverse_edges[v], also when the same edge was requested more than once.
C21_MirrorCounts ==
    \A u \in IDs, v \in IDs : Listed(edges, u, v) = Listed(reverse_edges, v, u)

\* an edge between two nodes requested twice
C21_Witness ==
    /\ last.op = "add_directed_edge"
    /\ last.args[1] # last.args[2]
    /\ Listed(edges, last.args[1], last.args[2]) = 2
    /\ Listed(reverse_edges, last.args[2], last.args[1]) = 2

====
